---------------------------- MODULE Spec2Model ----------------------------
(***************************************************************************)
(* RS232 capture / diagnosis scripts of rs232-transfer/scripts:            *)
(*   listen.py         capture engine (gate wait, capture loop, hex log)   *)
(*   rs232_receive.py  duration-limited receiver                           *)
(*   monitor.py        control-line change monitor                         *)
(*   test_cable.py     loopback / continuity tester                        *)
(* Each script is a sequential program; pc is its position.  The operator  *)
(* interrupt (KeyboardInterrupt) is an action of its own that can fire at  *)
(* any position.  The serial adapter, the clock and the file system are    *)
(* the environment: their answers are nondeterministic choices.            *)
(***************************************************************************)
EXTENDS Integers, Sequences, FiniteSets, TLC

VARIABLES
    prog,          \* which script runs: "listen", "receive", "monitor", "cable", "wait"
    pc,            \* position of the script
    args,          \* parsed command line (argparse namespace)
    assert_line,   \* listen.py local
    monitor_line,  \* listen.py local
    ser,           \* serial port: "none", "open", "closed"
    dtr,           \* host output line DTR as last driven
    rts,           \* host output line RTS as last driven
    timeout,       \* gate wait timeout, in clock ticks
    elapsed,       \* time.time() - wait_start, in clock ticks
    gate,          \* how the gate wait ended: "none", "waiting", "asserted", "timeout"
    nsamples,      \* number of read_monitor calls made by the gate wait
    nsleeps,       \* number of poll sleeps made by the gate wait
    f,             \* binary sink handle: "none", "open", "closed"
    lf,            \* log sink handle: "none", "open", "closed"
    sink,          \* content of the binary sink file
    fpos,          \* file position of f
    log,           \* records written to the log sink
    offset,        \* running offset
    last_monitor,  \* "None", "True", "False"
    data,          \* the chunk of the current iteration
    rx,            \* history: the chunks returned by ser.read so far
    steps,         \* history: the capture steps done for the current chunk
    outcome,       \* "Running", "Exit", "Completed", "Interrupted", "Uncaught"
    exc,           \* the exception that ended the run, "none" if none
    end_time,      \* rs232_receive.py: end of the capture in clock ticks, -1 for None
    last,          \* monitor.py: snapshot last reported
    cur,           \* monitor.py: snapshot of the latest poll
    polls,         \* monitor.py: number of polls made
    rxbuf,         \* test_cable.py: input buffer of the port
    echo,          \* test_cable.py: what the far end does with written bytes
    wiring,        \* test_cable.py: whether CTS is wired to RTS
    received,      \* test_cable.py: loopback_test local
    loopback_ok,   \* test_cable.py: result of loopback_test, "None" before the test
    states,        \* test_cable.py: rts_cts_test result
    trace          \* history: line operations, gate wait and first read, in order

vars == <<prog, pc, args, assert_line, monitor_line, ser, dtr, rts, timeout,
          elapsed, gate, nsamples, nsleeps, f, lf, sink, fpos, log, offset,
          last_monitor, data, rx, steps, outcome, exc, end_time, last, cur,
          polls, rxbuf, echo, wiring, received, loopback_ok, states, trace>>

serVars  == <<ser, dtr, rts>>
gateVars == <<timeout, elapsed, gate, nsamples, nsleeps>>
fileVars == <<f, lf, sink, fpos, log>>
loopVars == <<offset, last_monitor, data, rx, steps>>
cfgVars  == <<prog, args, assert_line, monitor_line>>
monVars  == <<last, cur, polls>>
cableVars == <<rxbuf, echo, wiring, received, loopback_ok, states>>
\* state of the other scripts, untouched by listen.py
notListen == <<end_time, monVars, cableVars>>

---------------------------------------------------------------------------
(* Bounds of the model *)

\* number of non-empty reads explored in one capture session
MaxReads == 2
\* the 30 s gate timeout of listen.py, in clock ticks of the model
GateTimeout == 3
\* largest advance of the clock over one poll sleep, in ticks
MaxSleepTicks == 2

---------------------------------------------------------------------------
(* Bytes, chunks and the hex log record *)

Min(a, b) == IF a < b THEN a ELSE b

\* content of a chunk of length L: printable, high-bit, control and 0xFF bytes
ByteAt(i) == CASE i % 4 = 1 -> 193
               [] i % 4 = 2 -> 65
               [] i % 4 = 3 -> 10
               [] OTHER     -> 255

ChunkOf(L) == [i \in 1..L |-> ByteAt(i)]

\* what ser.read(1024) may return: nothing, or a chunk of 2, 16 or 37 bytes
ReadChunks == {ChunkOf(0), ChunkOf(2), ChunkOf(16), ChunkOf(37)}

HexDigits == <<"0", "1", "2", "3", "4", "5", "6", "7",
               "8", "9", "A", "B", "C", "D", "E", "F">>

Pow16(n) == IF n = 0 THEN 1
            ELSE IF n = 1 THEN 16
            ELSE IF n = 2 THEN 256
            ELSE IF n = 3 THEN 4096
            ELSE IF n = 4 THEN 65536
            ELSE IF n = 5 THEN 1048576
            ELSE IF n = 6 THEN 16777216
            ELSE 268435456

\* f'{b:02X}'
Hex2(b) == <<HexDigits[(b \div 16) + 1], HexDigits[(b % 16) + 1]>>

\* f'{base_offset:08X}' for base_offset < 16^8
Hex8(n) == [i \in 1..8 |-> HexDigits[((n \div Pow16(8 - i)) % 16) + 1]]

\* chr(b) if 32 <= b < 127 else '.'  (characters as their codes, '.' is 46)
AsciiOf(b) == IF 32 <= b /\ b < 127 THEN b ELSE 46

\* a mask that keeps the high bit
Mask8(b) == b % 256

\* b & 0x7F
Mask7(b) == b % 128

MaskChunk(d) == [i \in 1..Len(d) |-> Mask7(d[i])]

NoRec == [kind |-> "", off |-> <<>>, hex |-> <<>>, asc |-> <<>>, val |-> ""]

hexdump_line(chunk, base_offset) ==
    [NoRec EXCEPT !.kind = "hex",
                  !.off  = Hex8(base_offset),
                  !.hex  = [i \in 1..Len(chunk) |-> Hex2(chunk[i])],
                  !.asc  = [i \in 1..Len(chunk) |-> AsciiOf(chunk[i])]]

Note(kind, val) == [NoRec EXCEPT !.kind = kind, !.val = val]

\* every record of a chunk stamped with the chunk's own offset
RECURSIVE HexLinesSameOffset(_, _, _)
HexLinesSameOffset(d, off, i) ==
    IF i >= Len(d) THEN <<>>
    ELSE <<hexdump_line(SubSeq(d, i + 1, Min(i + 16, Len(d))), off)>>
         \o HexLinesSameOffset(d, off, i + 16)

\* for i in range(0, len(data), 16): lf.write(hexdump_line(data[i:i+16], offset + i))
RECURSIVE HexLines(_, _, _)
HexLines(d, off, i) ==
    IF i >= Len(d) THEN <<>>
    ELSE <<hexdump_line(SubSeq(d, i + 1, Min(i + 16, Len(d))), off + i)>>
         \o HexLines(d, off, i + 16)

\* f.write(d) at file position pos
WriteAt(content, pos, d) ==
    [i \in 1..(IF pos + Len(d) > Len(content) THEN pos + Len(d) ELSE Len(content)) |->
        IF i > pos /\ i <= pos + Len(d) THEN d[i - pos] ELSE content[i]]

\* f.seek(-len(data), os.SEEK_CUR)
SeekBack(pos, d) == pos - Len(d)

RECURSIVE Flat(_)
Flat(chunks) == IF chunks = <<>> THEN <<>> ELSE Head(chunks) \o Flat(Tail(chunks))

PyBool(b) == IF b THEN "True" ELSE "False"

---------------------------------------------------------------------------
(* listen.py *)

ListenArgs ==
    {a \in [assert_line  : {"None", "rts", "dtr", "none"},
            dtr          : {"None", "on", "off", "toggle"},
            dtr_pulse    : {0, 50},
            monitor_line : {"None", "cts", "dsr", "none"},
            rtscts       : BOOLEAN,
            no_wait_cts  : BOOLEAN,
            log          : BOOLEAN,
            sevenbit     : BOOLEAN] :
        \* --no-wait-cts is read only when a monitor line is configured (line 142)
        a.no_wait_cts => \/ a.monitor_line \in {"cts", "dsr"}
                         \/ a.monitor_line = "None" /\ a.rtscts}

MonitorOn == monitor_line \notin {"None", "none"}
AssertOn  == assert_line \notin {"None", "none"}

\* a try block that ends before the chunk is written
TryRegionShort == {"sinks", "header", "pulse", "pulse_lo", "loop", "last_cts",
                   "read", "idle"}

\* the part of main that runs inside try: ... except KeyboardInterrupt
TryRegion == {"sinks", "header", "pulse", "pulse_lo", "loop", "last_cts", "read",
              "idle", "write", "mask", "rewrite", "hexlog", "advance"}

\* sinks opened without a with statement stay open
LeaveSinks(h) == h

\* the with statement leaves: both sinks are closed if they were opened
CloseSinks(h) == IF h = "open" THEN "closed" ELSE h

\* an exception other than KeyboardInterrupt leaves the try block: the with
\* statement closes the sinks, finally closes the port, the exception escapes
Escapes(e) ==
    /\ pc' = "done"
    /\ outcome' = "Uncaught"
    /\ exc' = e
    /\ f' = CloseSinks(f)
    /\ lf' = CloseSinks(lf)
    /\ ser' = "closed"

\* lines 88-90
CheckDevice ==
    /\ prog = "listen" /\ pc = "start"
    /\ \E exists \in BOOLEAN :
         IF exists
         THEN pc' = "open" /\ UNCHANGED <<outcome, exc>>
         ELSE pc' = "done" /\ outcome' = "Exit" /\ exc' = "SystemExit(2)"
    /\ UNCHANGED <<trace, cfgVars, notListen, serVars, gateVars, fileVars, loopVars>>

\* a failed open that is swallowed, the run going on without a port
OpenSerialSwallowed ==
    /\ prog = "listen" /\ pc = "open"
    /\ \E ok \in BOOLEAN :
         /\ ser' = IF ok THEN "open" ELSE ser
         /\ \E d \in BOOLEAN, r \in BOOLEAN : dtr' = d /\ rts' = r
         /\ assert_line' = IF args.assert_line = "None" /\ args.dtr # "None"
                           THEN "dtr" ELSE args.assert_line
         /\ monitor_line' = IF args.monitor_line = "None" /\ args.rtscts
                            THEN "cts" ELSE args.monitor_line
         /\ pc' = "assert"
         /\ UNCHANGED <<outcome, exc>>
    /\ UNCHANGED <<trace, prog, args, notListen, gateVars, fileVars, loopVars>>

\* lines 92-104: the port is opened (DTR and RTS come up as the adapter leaves
\* them), then assert_line and monitor_line are resolved
OpenSerial ==
    /\ prog = "listen" /\ pc = "open"
    /\ \E ok \in BOOLEAN :
         IF ok
         THEN /\ ser' = "open"
              /\ \E d \in BOOLEAN, r \in BOOLEAN : dtr' = d /\ rts' = r
              /\ assert_line' = IF args.assert_line = "None" /\ args.dtr # "None"
                                THEN "dtr" ELSE args.assert_line
              /\ monitor_line' = IF args.monitor_line = "None" /\ args.rtscts
                                 THEN "cts" ELSE args.monitor_line
              /\ pc' = "assert"
              /\ UNCHANGED <<outcome, exc>>
         ELSE /\ pc' = "done" /\ outcome' = "Uncaught" /\ exc' = "SerialException"
              /\ UNCHANGED <<ser, dtr, rts, assert_line, monitor_line>>
    /\ UNCHANGED <<trace, prog, args, notListen, gateVars, fileVars, loopVars>>

\* one entry of the history: a line operation ("set", "setfail"), a failed
\* sample ("readfail"), the gate wait ("gate_start", "gate_end") or the first
\* ser.read ("read"), with the phase of main it belongs to
Ev(ev, phase, line, val) == [ev |-> ev, phase |-> phase, line |-> line, val |-> val]

\* lines 108-120: the value the initial assertion drives on the asserted line
AssertValue ==
    IF assert_line = "dtr"
    THEN CASE args.dtr = "on"     -> TRUE
           [] args.dtr = "off"    -> FALSE
           [] args.dtr = "toggle" -> ~dtr
           [] OTHER               -> TRUE
    ELSE TRUE

\* an initial assertion that is left out
InitialAssertSkipped ==
    /\ prog = "listen" /\ pc = "assert"
    /\ pc' = "gate"
    /\ UNCHANGED <<trace, dtr, rts>>
    /\ UNCHANGED <<cfgVars, notListen, ser, gateVars, fileVars, loopVars, outcome, exc>>

\* an initial assertion with no handler around setDTR/setRTS
InitialAssertUncaught ==
    /\ prog = "listen" /\ pc = "assert"
    /\ IF AssertOn
       THEN \E ok \in BOOLEAN :
              IF ~ok
              THEN /\ trace' = Append(trace, Ev("setfail", "assert", assert_line, ""))
                   /\ pc' = "done" /\ outcome' = "Uncaught" /\ exc' = "SerialException"
                   /\ UNCHANGED <<dtr, rts>>
              ELSE /\ trace' = Append(trace, Ev("set", "assert", assert_line,
                                                PyBool(AssertValue)))
                   /\ IF assert_line = "dtr"
                      THEN dtr' = AssertValue /\ UNCHANGED rts
                      ELSE rts' = AssertValue /\ UNCHANGED dtr
                   /\ pc' = "gate" /\ UNCHANGED <<outcome, exc>>
       ELSE pc' = "gate" /\ UNCHANGED <<dtr, rts, trace, outcome, exc>>
    /\ UNCHANGED <<cfgVars, notListen, ser, gateVars, fileVars, loopVars>>

\* lines 106-125: a rejected setDTR/setRTS is caught and reported
InitialAssert ==
    /\ prog = "listen" /\ pc = "assert"
    /\ IF AssertOn
       THEN \E ok \in BOOLEAN :
              IF ~ok
              THEN /\ trace' = Append(trace, Ev("setfail", "assert", assert_line, ""))
                   /\ UNCHANGED <<dtr, rts>>
              ELSE /\ trace' = Append(trace, Ev("set", "assert", assert_line,
                                                PyBool(AssertValue)))
                   /\ IF assert_line = "dtr"
                      THEN dtr' = AssertValue /\ UNCHANGED rts
                      ELSE rts' = AssertValue /\ UNCHANGED dtr
       ELSE UNCHANGED <<dtr, rts, trace>>
    /\ pc' = "gate"
    /\ UNCHANGED <<cfgVars, notListen, ser, gateVars, fileVars, loopVars, outcome, exc>>

\* lines 142-144
GateEnter ==
    /\ prog = "listen" /\ pc = "gate"
    /\ IF MonitorOn /\ ~args.no_wait_cts
       THEN /\ pc' = "gate_sample" /\ gate' = "waiting" /\ elapsed' = 0
            /\ trace' = Append(trace, Ev("gate_start", "gate", monitor_line, ""))
       ELSE pc' = "sinks" /\ UNCHANGED <<gate, elapsed, trace>>
    /\ UNCHANGED <<cfgVars, notListen, serVars, timeout, nsamples, nsleeps, fileVars,
                   loopVars, outcome, exc>>

\* what a query of an input line may give: the sampled value, or the
\* adapter's exception
LineReads == {"True", "False", "raise"}

\* lines 42-49: the method is tried inside try/except; when it raises, the
\* property is read outside the handler, and what that read gives is returned
\* or raised
get_cts(viaMethod, viaProperty) ==
    IF viaMethod # "raise" THEN viaMethod ELSE viaProperty

\* lines 52-58
get_dsr(viaMethod, viaProperty) ==
    IF viaMethod # "raise" THEN viaMethod ELSE viaProperty

\* lines 135-140
read_monitor(line, viaMethod, viaProperty) ==
    IF line = "cts" THEN get_cts(viaMethod, viaProperty)
    ELSE IF line = "dsr" THEN get_dsr(viaMethod, viaProperty)
    ELSE "False"

\* where the gate wait hands over: listen.py goes on to the capture session
AfterGate == IF prog = "listen" THEN "sinks" ELSE "done"

\* the timeout checked on the clock as read before the sample
GateSampleCheckFirst ==
    /\ prog \in {"listen", "wait"} /\ pc = "gate_sample"
    /\ nsamples' = nsamples + 1
    /\ elapsed' = elapsed + 1
    /\ \E viaMethod \in LineReads, viaProperty \in LineReads :
         LET state == read_monitor(monitor_line, viaMethod, viaProperty) IN
         IF state = "raise"
         THEN /\ pc' = "done" /\ outcome' = "Uncaught" /\ exc' = "SerialException"
              /\ trace' = Append(trace, Ev("readfail", "gate", monitor_line, ""))
              /\ UNCHANGED gate
         ELSE IF state = "True"
         THEN /\ pc' = AfterGate /\ gate' = "asserted"
              /\ outcome' = IF prog = "wait" THEN "Completed" ELSE outcome
              /\ trace' = Append(trace, Ev("gate_end", "gate", monitor_line, state))
              /\ UNCHANGED exc
         ELSE IF elapsed > timeout
         THEN /\ pc' = AfterGate /\ gate' = "timeout"
              /\ outcome' = IF prog = "wait" THEN "Completed" ELSE outcome
              /\ trace' = Append(trace, Ev("gate_end", "gate", monitor_line, state))
              /\ UNCHANGED exc
         ELSE /\ pc' = "gate_sleep"
              /\ UNCHANGED <<gate, outcome, exc, trace>>
    /\ UNCHANGED <<cfgVars, notListen, serVars, timeout, nsleeps, fileVars, loopVars>>

\* lines 145-153: one sample of the line, then the timeout check
GateSample ==
    /\ prog \in {"listen", "wait"} /\ pc = "gate_sample"
    /\ nsamples' = nsamples + 1
    /\ elapsed' = elapsed + 1
    /\ \E viaMethod \in LineReads, viaProperty \in LineReads :
         LET state == read_monitor(monitor_line, viaMethod, viaProperty) IN
         IF state = "raise"
         THEN /\ pc' = "done" /\ outcome' = "Uncaught" /\ exc' = "SerialException"
              /\ trace' = Append(trace, Ev("readfail", "gate", monitor_line, ""))
              /\ UNCHANGED gate
         ELSE IF state = "True"
         THEN /\ pc' = AfterGate /\ gate' = "asserted"
              /\ outcome' = IF prog = "wait" THEN "Completed" ELSE outcome
              /\ trace' = Append(trace, Ev("gate_end", "gate", monitor_line, state))
              /\ UNCHANGED exc
         ELSE IF elapsed' > timeout
         THEN /\ pc' = AfterGate /\ gate' = "timeout"
              /\ outcome' = IF prog = "wait" THEN "Completed" ELSE outcome
              /\ trace' = Append(trace, Ev("gate_end", "gate", monitor_line, state))
              /\ UNCHANGED exc
         ELSE /\ pc' = "gate_sleep"
              /\ UNCHANGED <<gate, outcome, exc, trace>>
    /\ UNCHANGED <<cfgVars, notListen, serVars, timeout, nsleeps, fileVars, loopVars>>

\* line 154: time.sleep(0.1)
GateSleep ==
    /\ prog \in {"listen", "wait"} /\ pc = "gate_sleep"
    /\ nsleeps' = nsleeps + 1
    /\ \E d \in 1..MaxSleepTicks : elapsed' = elapsed + d
    /\ pc' = "gate_sample"
    /\ UNCHANGED <<trace, cfgVars, notListen, serVars, timeout, gate, nsamples, fileVars, loopVars,
                   outcome, exc>>

\* lines 156-159: start of the try block, both sinks are created
OpenSinks ==
    /\ prog = "listen" /\ pc = "sinks"
    /\ \E ok \in BOOLEAN :
         IF ok
         THEN /\ f' = "open" /\ lf' = "open"
              /\ sink' = <<>> /\ fpos' = 0 /\ log' = <<>>
              /\ offset' = 0
              /\ pc' = "header"
              /\ UNCHANGED <<ser, outcome, exc>>
         ELSE /\ Escapes("OSError")
              /\ UNCHANGED <<sink, fpos, log, offset>>
    /\ UNCHANGED <<trace, cfgVars, notListen, dtr, rts, gateVars, last_monitor, data, rx, steps>>

\* lines 160-164: initial sample of the monitor line and the log header
Header ==
    /\ prog = "listen" /\ pc = "header"
    /\ IF MonitorOn
       THEN \E viaMethod \in LineReads, viaProperty \in LineReads :
              LET state == read_monitor(monitor_line, viaMethod, viaProperty) IN
              IF state = "raise"
              THEN /\ Escapes("SerialException")
                   /\ trace' = Append(trace, Ev("readfail", "initial", monitor_line, ""))
                   /\ UNCHANGED <<last_monitor, log>>
              ELSE /\ last_monitor' = state
                   /\ UNCHANGED trace
                   /\ log' = IF args.log
                             THEN log \o <<Note("start", ""),
                                           Note("monitor_line", monitor_line),
                                           Note("monitor initial", state)>>
                             ELSE log
                   /\ pc' = "pulse"
                   /\ UNCHANGED <<f, lf, ser, outcome, exc>>
       ELSE /\ last_monitor' = "None"
            /\ log' = IF args.log
                      THEN log \o <<Note("start", ""),
                                    Note("monitor_line", monitor_line),
                                    Note("monitor initial", "None")>>
                      ELSE log
            /\ pc' = "pulse"
            /\ UNCHANGED <<f, lf, ser, outcome, exc, trace>>
    /\ UNCHANGED <<cfgVars, notListen, dtr, rts, gateVars, sink, fpos, offset, data, rx, steps>>

\* lines 167-171, 173-175: the asserted line is set for the pulse
Pulse ==
    /\ prog = "listen" /\ pc = "pulse"
    /\ IF args.dtr_pulse > 0 /\ AssertOn
       THEN \E ok \in BOOLEAN :
              IF ok
              THEN /\ IF assert_line = "dtr"
                      THEN dtr' = TRUE /\ UNCHANGED rts
                      ELSE rts' = TRUE /\ UNCHANGED dtr
                   /\ trace' = Append(trace, Ev("set", "pulse", assert_line, "True"))
                   /\ pc' = "pulse_lo"
              ELSE /\ trace' = Append(trace, Ev("setfail", "pulse", assert_line, ""))
                   /\ pc' = "loop" /\ UNCHANGED <<dtr, rts>>
       ELSE pc' = "loop" /\ UNCHANGED <<dtr, rts, trace>>
    /\ UNCHANGED <<cfgVars, notListen, ser, gateVars, fileVars, loopVars, outcome, exc>>

\* a pulse whose second set drives the line true again
PulseLowKeepsHigh ==
    /\ prog = "listen" /\ pc = "pulse_lo"
    /\ \E ok \in BOOLEAN, logged \in BOOLEAN :
         IF ok
         THEN /\ IF assert_line = "dtr"
                 THEN dtr' = TRUE /\ UNCHANGED rts
                 ELSE rts' = TRUE /\ UNCHANGED dtr
              /\ trace' = Append(trace, Ev("set", "pulse", assert_line, "True"))
              /\ log' = IF args.log /\ logged
                        THEN Append(log, Note("pulsed", assert_line))
                        ELSE log
         ELSE /\ trace' = Append(trace, Ev("setfail", "pulse", assert_line, ""))
              /\ UNCHANGED <<dtr, rts, log>>
    /\ pc' = "loop"
    /\ UNCHANGED <<cfgVars, notListen, ser, gateVars, f, lf, sink, fpos, loopVars, outcome, exc>>

\* lines 172, 176-181: after the sleep the line is cleared and the pulse logged;
\* a failing setDTR/setRTS or log write is caught by except Exception
PulseLow ==
    /\ prog = "listen" /\ pc = "pulse_lo"
    /\ \E ok \in BOOLEAN, logged \in BOOLEAN :
         IF ok
         THEN /\ IF assert_line = "dtr"
                 THEN dtr' = FALSE /\ UNCHANGED rts
                 ELSE rts' = FALSE /\ UNCHANGED dtr
              /\ trace' = Append(trace, Ev("set", "pulse", assert_line, "False"))
              /\ log' = IF args.log /\ logged
                        THEN Append(log, Note("pulsed", assert_line))
                        ELSE log
         ELSE /\ trace' = Append(trace, Ev("setfail", "pulse", assert_line, ""))
              /\ UNCHANGED <<dtr, rts, log>>
    /\ pc' = "loop"
    /\ UNCHANGED <<cfgVars, notListen, ser, gateVars, f, lf, sink, fpos, loopVars, outcome, exc>>

\* lines 184-192: poll of the monitor line at the top of an iteration
LoopPoll ==
    /\ prog = "listen" /\ pc = "loop"
    /\ IF MonitorOn
       THEN \E viaMethod \in LineReads, viaProperty \in LineReads :
              LET state == read_monitor(monitor_line, viaMethod, viaProperty)
                  polled == IF state = "raise" THEN "False" ELSE state
              IN  /\ IF polled # last_monitor /\ args.log
                     THEN /\ log' = Append(log, Note("changed", polled))
                          /\ last_monitor' = polled
                     ELSE UNCHANGED <<log, last_monitor>>
                  /\ pc' = "last_cts"
       ELSE pc' = "read" /\ UNCHANGED <<log, last_monitor>>
    /\ UNCHANGED <<trace, cfgVars, notListen, serVars, gateVars, f, lf, sink, fpos, offset, data,
                   rx, steps, outcome, exc>>

\* line 193: last_cts = cts, and no name cts is bound anywhere
LastCts ==
    /\ prog = "listen" /\ pc = "last_cts"
    /\ Escapes("NameError")
    /\ UNCHANGED <<trace, cfgVars, notListen, dtr, rts, gateVars, sink, fpos, log, loopVars>>

\* no ser.read has been made yet in this run
FirstRead == trace = <<>> \/ trace[Len(trace)].ev # "read"

\* line 195: data = ser.read(1024)
Read ==
    /\ prog = "listen" /\ pc = "read"
    /\ \E chunk \in ReadChunks :
         /\ chunk # <<>> => Len(rx) < MaxReads
         /\ data' = chunk
         /\ trace' = IF FirstRead THEN Append(trace, Ev("read", "capture", "", ""))
                      ELSE trace
         /\ IF chunk # <<>>
            THEN pc' = "write" /\ rx' = Append(rx, chunk) /\ steps' = <<>>
            ELSE pc' = "idle" /\ UNCHANGED <<rx, steps>>
    /\ UNCHANGED <<cfgVars, notListen, serVars, gateVars, fileVars, offset, last_monitor,
                   outcome, exc>>

\* line 215: time.sleep(0.05)
Idle ==
    /\ prog = "listen" /\ pc = "idle"
    /\ pc' = "loop"
    /\ UNCHANGED <<trace, cfgVars, notListen, serVars, gateVars, fileVars, loopVars, outcome, exc>>

\* a first write that is never followed by the masking rewrite
WriteSkipsMask ==
    /\ prog = "listen" /\ pc = "write"
    /\ \E ok \in BOOLEAN :
         IF ok
         THEN /\ sink' = WriteAt(sink, fpos, data)
              /\ fpos' = fpos + Len(data)
              /\ steps' = Append(steps, "write")
              /\ pc' = "hexlog"
              /\ UNCHANGED <<f, lf, ser, outcome, exc>>
         ELSE /\ Escapes("OSError")
              /\ UNCHANGED <<sink, fpos, steps>>
    /\ UNCHANGED <<trace, cfgVars, notListen, dtr, rts, gateVars, log, offset, last_monitor, data, rx>>

\* a chunk that is logged and counted without having been written
WriteDeferred ==
    /\ prog = "listen" /\ pc = "write"
    /\ pc' = "hexlog"
    /\ UNCHANGED <<sink, fpos, steps, f, lf, ser, outcome, exc>>
    /\ UNCHANGED <<trace, cfgVars, notListen, dtr, rts, gateVars, log, offset, last_monitor, data, rx>>

\* lines 197-198: f.write(data); f.flush()
Write ==
    /\ prog = "listen" /\ pc = "write"
    /\ \E ok \in BOOLEAN :
         IF ok
         THEN /\ sink' = WriteAt(sink, fpos, data)
              /\ fpos' = fpos + Len(data)
              /\ steps' = Append(steps, "write")
              /\ pc' = IF args.sevenbit THEN "mask" ELSE "hexlog"
              /\ UNCHANGED <<f, lf, ser, outcome, exc>>
         ELSE /\ Escapes("OSError")
              /\ UNCHANGED <<sink, fpos, steps>>
    /\ UNCHANGED <<trace, cfgVars, notListen, dtr, rts, gateVars, log, offset, last_monitor, data, rx>>

\* lines 199-203: data is masked and the file position moved back over the chunk
Mask ==
    /\ prog = "listen" /\ pc = "mask"
    /\ data' = MaskChunk(data)
    /\ fpos' = SeekBack(fpos, data')
    /\ steps' = Append(steps, "seek")
    /\ pc' = "rewrite"
    /\ UNCHANGED <<trace, cfgVars, notListen, serVars, gateVars, f, lf, sink, log, offset,
                   last_monitor, rx, outcome, exc>>

\* lines 204-205: f.write(data); f.flush() with the masked data
Rewrite ==
    /\ prog = "listen" /\ pc = "rewrite"
    /\ \E ok \in BOOLEAN :
         IF ok
         THEN /\ sink' = WriteAt(sink, fpos, data)
              /\ fpos' = fpos + Len(data)
              /\ steps' = Append(steps, "rewrite")
              /\ pc' = "hexlog"
              /\ UNCHANGED <<f, lf, ser, outcome, exc>>
         ELSE /\ Escapes("OSError")
              /\ UNCHANGED <<sink, fpos, steps>>
    /\ UNCHANGED <<trace, cfgVars, notListen, dtr, rts, gateVars, log, offset, last_monitor, data, rx>>

\* hex log records rendered from the chunk as it was read
HexLogRaw ==
    /\ prog = "listen" /\ pc = "hexlog"
    /\ IF args.log
       THEN \E ok \in BOOLEAN :
              IF ok
              THEN /\ log' = log \o HexLines(rx[Len(rx)], offset, 0)
                   /\ steps' = Append(steps, "log")
                   /\ pc' = "advance"
                   /\ UNCHANGED <<f, lf, ser, outcome, exc>>
              ELSE /\ Escapes("OSError")
                   /\ UNCHANGED <<log, steps>>
       ELSE /\ pc' = "advance"
            /\ UNCHANGED <<log, steps, f, lf, ser, outcome, exc>>
    /\ UNCHANGED <<trace, cfgVars, notListen, dtr, rts, gateVars, sink, fpos, offset, last_monitor,
                   data, rx>>

\* lines 206-211: the hex log records of the chunk
HexLog ==
    /\ prog = "listen" /\ pc = "hexlog"
    /\ IF args.log
       THEN \E ok \in BOOLEAN :
              IF ok
              THEN /\ log' = log \o HexLines(data, offset, 0)
                   /\ steps' = Append(steps, "log")
                   /\ pc' = "advance"
                   /\ UNCHANGED <<f, lf, ser, outcome, exc>>
              ELSE /\ Escapes("OSError")
                   /\ UNCHANGED <<log, steps>>
       ELSE /\ pc' = "advance"
            /\ UNCHANGED <<log, steps, f, lf, ser, outcome, exc>>
    /\ UNCHANGED <<trace, cfgVars, notListen, dtr, rts, gateVars, sink, fpos, offset, last_monitor,
                   data, rx>>

\* an offset that counts every chunk twice
AdvanceTwice ==
    /\ prog = "listen" /\ pc = "advance"
    /\ offset' = offset + 2 * Len(data)
    /\ steps' = Append(steps, "offset")
    /\ pc' = "loop"
    /\ UNCHANGED <<trace, cfgVars, notListen, serVars, gateVars, fileVars, last_monitor,
                   data, rx, outcome, exc>>

\* an offset that counts chunks instead of bytes
AdvanceByOne ==
    /\ prog = "listen" /\ pc = "advance"
    /\ offset' = offset + 1
    /\ steps' = Append(steps, "offset")
    /\ pc' = "loop"
    /\ UNCHANGED <<trace, cfgVars, notListen, serVars, gateVars, fileVars, last_monitor,
                   data, rx, outcome, exc>>

\* line 212: offset += len(data)
Advance ==
    /\ prog = "listen" /\ pc = "advance"
    /\ offset' = offset + Len(data)
    /\ steps' = Append(steps, "offset")
    /\ pc' = "loop"
    /\ UNCHANGED <<trace, cfgVars, notListen, serVars, gateVars, fileVars, last_monitor, data, rx,
                   outcome, exc>>

\* lines 216-224: KeyboardInterrupt.  Inside the try block the with statement
\* closes the sinks, the handler reports, finally closes the port; before the
\* try block nothing catches it.
Interrupt ==
    /\ prog = "listen" /\ pc # "done"
    /\ pc' = "done"
    /\ exc' = "KeyboardInterrupt"
    /\ IF pc \in TryRegion
       THEN /\ outcome' = "Interrupted"
            /\ f' = CloseSinks(f) /\ lf' = CloseSinks(lf)
            /\ ser' = "closed"
       ELSE /\ outcome' = "Uncaught"
            /\ UNCHANGED <<f, lf, ser>>
    /\ UNCHANGED <<trace, cfgVars, notListen, dtr, rts, gateVars, sink, fpos, log, loopVars>>

NextListen ==
    \/ CheckDevice \/ OpenSerial \/ InitialAssert
    \/ GateEnter \/ GateSample \/ GateSleep
    \/ OpenSinks \/ Header \/ Pulse \/ PulseLow
    \/ LoopPoll \/ LastCts \/ Read \/ Idle
    \/ Write \/ Mask \/ Rewrite \/ HexLog \/ Advance
    \/ Interrupt

---------------------------------------------------------------------------
(* rs232_receive.py *)

\* largest reading of the clock kept by the model, in ticks
MaxClock == 3

ReceiveArgs ==
    [duration : {0, 2},
     no_dtr   : BOOLEAN,
     no_rts   : BOOLEAN]

\* state of the other scripts, untouched by rs232_receive.py
notReceive == <<assert_line, monitor_line, timeout, gate, nsamples, nsleeps,
                lf, log, offset, last_monitor, steps, monVars, cableVars, trace>>

\* finally: ser.close(), then the with statement closes the file
RecvLeaves(how, e) ==
    /\ pc' = "done"
    /\ outcome' = how
    /\ exc' = e
    /\ ser' = "closed"
    /\ f' = CloseSinks(f)

\* lines 36-63: the port is opened, RTS and DTR are driven, end_time is computed
RecvOpen ==
    /\ prog = "receive" /\ pc = "r_open"
    /\ \E opened \in BOOLEAN :
         IF opened
         THEN /\ ser' = "open"
              /\ rts' = ~args.no_rts
              /\ dtr' = ~args.no_dtr
              /\ end_time' = IF args.duration > 0 THEN elapsed + args.duration ELSE -1
              /\ pc' = "r_sinks"
              /\ UNCHANGED <<outcome, exc>>
         ELSE /\ pc' = "done" /\ outcome' = "Uncaught" /\ exc' = "SerialException"
              /\ UNCHANGED <<ser, rts, dtr, end_time>>
    /\ UNCHANGED <<prog, args, elapsed, f, sink, fpos, data, rx, notReceive>>

\* line 65: with open(args.outfile, "wb") as f, outside the try block
RecvOpenSink ==
    /\ prog = "receive" /\ pc = "r_sinks"
    /\ \E opened \in BOOLEAN :
         IF opened
         THEN /\ f' = "open" /\ sink' = <<>> /\ fpos' = 0
              /\ pc' = "r_loop"
              /\ UNCHANGED <<outcome, exc>>
         ELSE /\ pc' = "done" /\ outcome' = "Uncaught" /\ exc' = "OSError"
              /\ UNCHANGED <<f, sink, fpos>>
    /\ UNCHANGED <<prog, args, serVars, elapsed, end_time, data, rx, notReceive>>

\* a loop whose duration check never breaks
RecvCheckNever ==
    /\ prog = "receive" /\ pc = "r_loop"
    /\ pc' = "r_read" /\ UNCHANGED <<outcome, exc, ser, f>>
    /\ UNCHANGED <<prog, args, dtr, rts, elapsed, end_time, sink, fpos, data, rx,
                   notReceive>>

\* lines 68-70: the duration check at the top of an iteration
RecvCheck ==
    /\ prog = "receive" /\ pc = "r_loop"
    /\ IF end_time # -1 /\ elapsed > end_time
       THEN RecvLeaves("Completed", "none")
       ELSE pc' = "r_read" /\ UNCHANGED <<outcome, exc, ser, f>>
    /\ UNCHANGED <<prog, args, dtr, rts, elapsed, end_time, sink, fpos, data, rx,
                   notReceive>>

\* line 71: data = ser.read(1024); an empty read has waited the read timeout
RecvRead ==
    /\ prog = "receive" /\ pc = "r_read"
    /\ \E chunk \in ReadChunks :
         /\ chunk # <<>> => Len(rx) < MaxReads
         /\ data' = chunk
         /\ IF chunk # <<>>
            THEN /\ pc' = "r_write" /\ rx' = Append(rx, chunk)
                 /\ \E d \in 0..1 : elapsed' = Min(elapsed + d, MaxClock)
            ELSE /\ pc' = "r_loop" /\ UNCHANGED rx
                 /\ elapsed' = Min(elapsed + 1, MaxClock)
    /\ UNCHANGED <<prog, args, serVars, end_time, f, sink, fpos, outcome, exc,
                   notReceive>>

\* lines 73-79: f.write(data); f.flush(); the console echo
RecvWrite ==
    /\ prog = "receive" /\ pc = "r_write"
    /\ \E written \in BOOLEAN :
         IF written
         THEN /\ sink' = WriteAt(sink, fpos, data)
              /\ fpos' = fpos + Len(data)
              /\ pc' = "r_loop"
              /\ UNCHANGED <<outcome, exc, ser, f>>
         ELSE /\ RecvLeaves("Uncaught", "OSError")
              /\ UNCHANGED <<sink, fpos>>
    /\ UNCHANGED <<prog, args, dtr, rts, elapsed, end_time, data, rx, notReceive>>

\* lines 80-84: KeyboardInterrupt is caught inside the try block only
RecvInterrupt ==
    /\ prog = "receive" /\ pc # "done"
    /\ IF pc \in {"r_loop", "r_read", "r_write"}
       THEN RecvLeaves("Interrupted", "KeyboardInterrupt")
       ELSE /\ pc' = "done" /\ outcome' = "Uncaught" /\ exc' = "KeyboardInterrupt"
            /\ UNCHANGED <<ser, f>>
    /\ UNCHANGED <<prog, args, dtr, rts, elapsed, end_time, sink, fpos, data, rx,
                   notReceive>>

NextReceive ==
    \/ RecvOpen \/ RecvOpenSink \/ RecvCheck \/ RecvRead \/ RecvWrite
    \/ RecvInterrupt

\* the state before any script has run
Blank ==
    /\ assert_line = "None" /\ monitor_line = "None"
    /\ ser = "none" /\ dtr = FALSE /\ rts = FALSE
    /\ timeout = GateTimeout /\ elapsed = 0 /\ gate = "none"
    /\ nsamples = 0 /\ nsleeps = 0
    /\ f = "none" /\ lf = "none" /\ sink = <<>> /\ fpos = 0 /\ log = <<>>
    /\ offset = 0 /\ last_monitor = "None" /\ data = <<>> /\ rx = <<>>
    /\ steps = <<>>
    /\ outcome = "Running" /\ exc = "none"
    /\ end_time = -1
    /\ last = <<>> /\ cur = <<>> /\ polls = 0
    /\ rxbuf = <<>> /\ echo = "none" /\ wiring = "none"
    /\ received = <<>> /\ loopback_ok = "None" /\ states = <<>>
    /\ trace = <<>>

InitListen ==
    /\ prog = "listen" /\ pc = "start"
    /\ args \in ListenArgs
    /\ Blank

InitReceive ==
    /\ prog = "receive" /\ pc = "r_open"
    /\ args \in ReceiveArgs
    /\ Blank

\* the capture programs: listen.py and rs232_receive.py
Init == InitListen \/ InitReceive

Next == NextListen \/ NextReceive

Spec == Init /\ [][Next]_vars

---------------------------------------------------------------------------
(* The gate wait of listen.py on its own, for any timeout *)

InitWait ==
    /\ prog = "wait" /\ pc = "gate_sample"
    /\ args \in {a \in ListenArgs : a.monitor_line \in {"cts", "dsr"}
                                    /\ ~a.no_wait_cts /\ a.assert_line = "None"
                                    /\ a.dtr = "None" /\ a.dtr_pulse = 0}
    /\ assert_line = "None" /\ monitor_line = args.monitor_line
    /\ ser = "open" /\ dtr \in BOOLEAN /\ rts \in BOOLEAN
    /\ timeout \in 0..GateTimeout /\ elapsed = 0 /\ gate = "waiting"
    /\ nsamples = 0 /\ nsleeps = 0
    /\ f = "none" /\ lf = "none" /\ sink = <<>> /\ fpos = 0 /\ log = <<>>
    /\ offset = 0 /\ last_monitor = "None" /\ data = <<>> /\ rx = <<>>
    /\ steps = <<>>
    /\ outcome = "Running" /\ exc = "none"
    /\ end_time = -1
    /\ last = <<>> /\ cur = <<>> /\ polls = 0
    /\ rxbuf = <<>> /\ echo = "none" /\ wiring = "none"
    /\ received = <<>> /\ loopback_ok = "None" /\ states = <<>>
    /\ trace = <<>>

NextWait == GateSample \/ GateSleep

SpecWait == InitWait /\ [][NextWait]_vars

---------------------------------------------------------------------------
(* monitor.py *)

\* number of polls explored
MaxPolls == 2

Lines == {"cts", "dsr", "ri", "cd"}

\* what the adapter answers for the four lines
RawReads == [Lines -> LineReads]

\* lines 19-50: bool() of each line, False where the read raised
read_lines(raw) == [l \in Lines |-> raw[l] = "True"]

\* the lines whose value differs between two snapshots
DetectChange(s, t) == {l \in Lines : s[l] # t[l]}

\* line 83: cur != last, a comparison of two dicts
Differs(s, t) == s # t

MonitorArgs == [out : {"console", "new file", "old file"}]

\* lines 84-85: the change record (the time stamp is left out)
ChangeLine(snap) == [kind |-> "change", cts |-> snap["cts"], dsr |-> snap["dsr"],
                     ri |-> snap["ri"], cd |-> snap["cd"]]

HeaderLine == [kind |-> "header", cts |-> FALSE, dsr |-> FALSE, ri |-> FALSE,
               cd |-> FALSE]

\* state of the other scripts, untouched by monitor.py
notMonitor == <<assert_line, monitor_line, dtr, rts, gateVars, f, lf, sink, fpos,
                loopVars, end_time, cableVars, trace>>

\* lines 64-68
MonOpen ==
    /\ prog = "monitor" /\ pc = "m_open"
    /\ \E exists \in BOOLEAN, opened \in BOOLEAN :
         IF ~exists
         THEN /\ pc' = "done" /\ outcome' = "Exit" /\ exc' = "SystemExit(2)"
              /\ UNCHANGED ser
         ELSE IF ~opened
         THEN /\ pc' = "done" /\ outcome' = "Uncaught" /\ exc' = "SerialException"
              /\ UNCHANGED ser
         ELSE /\ pc' = "m_init" /\ ser' = "open"
              /\ UNCHANGED <<outcome, exc>>
    /\ UNCHANGED <<prog, args, log, monVars, notMonitor>>

\* lines 70-78: first snapshot and the header
MonInit ==
    /\ prog = "monitor" /\ pc = "m_init"
    /\ \E raw \in RawReads :
         /\ last' = read_lines(raw)
         /\ cur' = read_lines(raw)
    /\ log' = IF args.out = "old file" THEN log ELSE Append(log, HeaderLine)
    /\ pc' = "m_poll"
    /\ UNCHANGED <<prog, args, ser, polls, outcome, exc, notMonitor>>

\* a poll that reports the change and forgets to keep the new snapshot
MonPollKeepsLast ==
    /\ prog = "monitor" /\ pc = "m_poll"
    /\ polls < MaxPolls
    /\ polls' = polls + 1
    /\ \E raw \in RawReads :
         /\ cur' = read_lines(raw)
         /\ IF Differs(cur', last)
            THEN log' = Append(log, ChangeLine(cur')) /\ UNCHANGED last
            ELSE UNCHANGED <<log, last>>
    /\ pc' = "m_sleep"
    /\ UNCHANGED <<prog, args, ser, outcome, exc, notMonitor>>

\* lines 82-91: one poll
MonPoll ==
    /\ prog = "monitor" /\ pc = "m_poll"
    /\ polls < MaxPolls
    /\ polls' = polls + 1
    /\ \E raw \in RawReads :
         /\ cur' = read_lines(raw)
         /\ IF Differs(cur', last)
            THEN log' = Append(log, ChangeLine(cur')) /\ last' = cur'
            ELSE UNCHANGED <<log, last>>
    /\ pc' = "m_sleep"
    /\ UNCHANGED <<prog, args, ser, outcome, exc, notMonitor>>

\* line 92: time.sleep(args.interval)
MonSleep ==
    /\ prog = "monitor" /\ pc = "m_sleep"
    /\ pc' = "m_poll"
    /\ UNCHANGED <<prog, args, ser, log, monVars, outcome, exc, notMonitor>>

\* lines 93-99: KeyboardInterrupt ends the loop, finally closes the port
MonInterrupt ==
    /\ prog = "monitor" /\ pc # "done"
    /\ pc' = "done"
    /\ exc' = "KeyboardInterrupt"
    /\ IF pc \in {"m_poll", "m_sleep"}
       THEN outcome' = "Interrupted" /\ ser' = "closed"
       ELSE outcome' = "Uncaught" /\ UNCHANGED ser
    /\ UNCHANGED <<prog, args, log, monVars, notMonitor>>

NextMon == MonOpen \/ MonInit \/ MonPoll \/ MonSleep \/ MonInterrupt

InitMon ==
    /\ prog = "monitor" /\ pc = "m_open"
    /\ args \in MonitorArgs
    /\ Blank

SpecMon == InitMon /\ [][NextMon]_vars

---------------------------------------------------------------------------
(* test_cable.py *)

\* line 47: msg = b'TEST-LOOPBACK-123\r\n'
msg == <<84, 69, 83, 84, 45, 76, 79, 79, 80, 66, 65, 67, 75, 45, 49, 50, 51, 13, 10>>

\* bytes that may sit in the input buffer when the test starts
StaleInputs == {<<>>, <<0>>, <<84, 69>>}

\* the far end: echoes everything, echoes nothing, loses the last byte,
\* or flips the high bit of the first byte
EchoKinds == {"perfect", "none", "short", "corrupt"}

Echoed(kind, d) ==
    CASE kind = "perfect" -> d
      [] kind = "none"    -> <<>>
      [] kind = "short"   -> SubSeq(d, 1, Len(d) - 1)
      [] OTHER            -> [i \in 1..Len(d) |-> IF i = 1 THEN (d[i] + 128) % 256
                                                  ELSE d[i]]

\* line 64: for value in (True, False, True)
DriveSequence == <<TRUE, FALSE, TRUE>>

CableArgs == [verbose : BOOLEAN]

\* an input buffer that is not cleared
KeepInputBuffer(buf) == buf

\* s.reset_input_buffer()
reset_input_buffer(buf) == <<>>

\* s.read(n): up to n bytes from the front of the input buffer
ReadN(buf, n) == SubSeq(buf, 1, Min(n, Len(buf)))

\* state of the other scripts, untouched by test_cable.py
notCable == <<assert_line, monitor_line, dtr, gateVars, fileVars, loopVars,
              end_time, monVars, trace>>

\* lines 94-113: open_port, then the verbose RTS toggling
CableOpen ==
    /\ prog = "cable" /\ pc = "c_open"
    /\ \E exists \in BOOLEAN, opened \in BOOLEAN :
         IF ~exists
         THEN /\ pc' = "done" /\ outcome' = "Exit" /\ exc' = "SystemExit(2)"
              /\ UNCHANGED <<ser, rts>>
         ELSE IF ~opened
         THEN /\ pc' = "done" /\ outcome' = "Exit" /\ exc' = "SystemExit(3)"
              /\ UNCHANGED <<ser, rts>>
         ELSE /\ pc' = "c_reset" /\ ser' = "open"
              /\ rts' = IF args.verbose THEN FALSE ELSE rts
              /\ UNCHANGED <<outcome, exc>>
    /\ UNCHANGED <<prog, args, cableVars, notCable>>

\* lines 47-49: both buffers are cleared
LoopbackReset ==
    /\ prog = "cable" /\ pc = "c_reset"
    /\ rxbuf' = reset_input_buffer(rxbuf)
    /\ pc' = "c_write"
    /\ UNCHANGED <<prog, args, ser, rts, echo, wiring, received, loopback_ok,
                   states, outcome, exc, notCable>>

\* lines 50-52: n = s.write(msg); s.flush(); the far end answers during the sleep
LoopbackWrite ==
    /\ prog = "cable" /\ pc = "c_write"
    /\ rxbuf' = rxbuf \o Echoed(echo, msg)
    /\ pc' = "c_read"
    /\ UNCHANGED <<prog, args, ser, rts, echo, wiring, received, loopback_ok,
                   states, outcome, exc, notCable>>

\* lines 53-58: received = s.read(n); ok = received == msg
LoopbackRead ==
    /\ prog = "cable" /\ pc = "c_read"
    /\ received' = ReadN(rxbuf, Len(msg))
    /\ rxbuf' = SubSeq(rxbuf, Len(received') + 1, Len(rxbuf))
    /\ loopback_ok' = PyBool(received' = msg)
    /\ pc' = "c_drive"
    /\ UNCHANGED <<prog, args, ser, rts, echo, wiring, states, outcome, exc,
                   notCable>>

\* a sweep step that waits without driving the line
DriveStale ==
    /\ prog = "cable" /\ pc = "c_drive"
    /\ Len(states) < Len(DriveSequence)
    /\ pc' = "c_sense"
    /\ UNCHANGED <<prog, args, ser, rts, cableVars, outcome, exc, notCable>>

\* lines 65-66: s.rts = value; time.sleep(0.1)
Drive ==
    /\ prog = "cable" /\ pc = "c_drive"
    /\ Len(states) < Len(DriveSequence)
    /\ rts' = DriveSequence[Len(states) + 1]
    /\ pc' = "c_sense"
    /\ UNCHANGED <<prog, args, ser, cableVars, outcome, exc, notCable>>

\* line 67: states.append((value, bool(s.cts))); s.cts is read with no handler
Sense ==
    /\ prog = "cable" /\ pc = "c_sense"
    /\ \E cts \in LineReads :
         IF cts = "raise"
         THEN /\ pc' = "done" /\ outcome' = "Uncaught" /\ exc' = "SerialException"
              /\ UNCHANGED states
         ELSE /\ wiring = "mirror" => cts = PyBool(rts)
              /\ states' = Append(states, <<DriveSequence[Len(states) + 1],
                                            cts = "True">>)
              /\ pc' = "c_drive"
              /\ UNCHANGED <<outcome, exc>>
    /\ UNCHANGED <<prog, args, ser, rts, rxbuf, echo, wiring, received,
                   loopback_ok, notCable>>

\* lines 69, 121-122: the sweep is over, the port is closed
CableDone ==
    /\ prog = "cable" /\ pc = "c_drive"
    /\ Len(states) = Len(DriveSequence)
    /\ ser' = "closed"
    /\ pc' = "done" /\ outcome' = "Completed"
    /\ UNCHANGED <<prog, args, rts, cableVars, exc, notCable>>

NextCable ==
    \/ CableOpen \/ LoopbackReset \/ LoopbackWrite \/ LoopbackRead
    \/ Drive \/ Sense \/ CableDone

InitCable ==
    /\ prog = "cable" /\ pc = "c_open"
    /\ args \in CableArgs
    /\ assert_line = "None" /\ monitor_line = "None"
    /\ ser = "none" /\ dtr = FALSE /\ rts \in BOOLEAN
    /\ timeout = GateTimeout /\ elapsed = 0 /\ gate = "none"
    /\ nsamples = 0 /\ nsleeps = 0
    /\ f = "none" /\ lf = "none" /\ sink = <<>> /\ fpos = 0 /\ log = <<>>
    /\ offset = 0 /\ last_monitor = "None" /\ data = <<>> /\ rx = <<>>
    /\ steps = <<>>
    /\ outcome = "Running" /\ exc = "none"
    /\ end_time = -1
    /\ last = <<>> /\ cur = <<>> /\ polls = 0
    /\ rxbuf \in StaleInputs /\ echo \in EchoKinds /\ wiring \in {"mirror", "open"}
    /\ received = <<>> /\ loopback_ok = "None" /\ states = <<>>
    /\ trace = <<>>

SpecCable == InitCable /\ [][NextCable]_vars

---------------------------------------------------------------------------
(* Properties *)

\* exceptions raised by the adapter or the file system
IOFailures == {"SerialException", "OSError"}

\* the chunks whose first write to the binary sink has been done
WrittenChunks ==
    IF rx # <<>> /\ steps = <<>> THEN SubSeq(rx, 1, Len(rx) - 1) ELSE rx

\* every chunk read so far has gone through its whole iteration
AllProcessed == offset = Len(Flat(rx))

Ceil16(L) == (L + 15) \div 16

RECURSIVE SumCeil16(_)
SumCeil16(chunks) ==
    IF chunks = <<>> THEN 0 ELSE Ceil16(Len(Head(chunks))) + SumCeil16(Tail(chunks))

IsHex(r) == r.kind = "hex"

DigitValue(c) == CHOOSE d \in 0..15 : HexDigits[d + 1] = c

RECURSIVE HexValue(_)
HexValue(digits) ==
    IF digits = <<>> THEN 0
    ELSE 16 * HexValue(SubSeq(digits, 1, Len(digits) - 1))
         + DigitValue(digits[Len(digits)])

\* C1: with a monitor line configured and waiting enabled, a gate wait that
\* ended by timeout is followed by a capture session that only the operator
\* ends (no adapter or file failure given), and at the top of every iteration
\* the binary sink holds every chunk read.
C1_TimeoutThenCapture ==
    (prog = "listen" /\ gate = "timeout") =>
        /\ MonitorOn /\ ~args.no_wait_cts
        /\ (pc = "done" /\ exc \notin IOFailures) => outcome = "Interrupted"
        /\ pc = "loop" => Len(sink) = Len(Flat(rx))

\* C2: an operator interrupt that arrives once the sinks exist is caught; the
\* run then is Interrupted with both sinks and the port closed, and the binary
\* sink holds exactly the bytes of the chunks written, as read or masked.
C2_InterruptKeepsBytes ==
    prog = "listen" =>
        /\ (exc = "KeyboardInterrupt" /\ f # "none") => outcome = "Interrupted"
        /\ outcome = "Interrupted" =>
             LET wrote == Flat(WrittenChunks)
             IN  /\ pc = "done"
                 /\ f # "open" /\ lf # "open" /\ ser = "closed"
                 /\ Len(sink) = Len(wrote)
                 /\ \A i \in 1..Len(sink) :
                      sink[i] = wrote[i] \/ (args.sevenbit /\ sink[i] = Mask7(wrote[i]))
                 /\ ~args.sevenbit => sink = wrote

C2_Witness ==
    /\ prog = "listen" /\ outcome = "Interrupted"
    /\ Len(rx) = 2 /\ Len(sink) = Len(Flat(rx))
    /\ f = "closed" /\ lf = "closed"

\* C3: with 7-bit masking, once every chunk read has been processed, the
\* binary sink is the read bytes AND 0x7F in read order: no byte has bit 0x80
\* set and the length is the sum of the chunk lengths.
C3_MaskedSink ==
    (prog = "listen" /\ args.sevenbit /\ AllProcessed) =>
        /\ Len(sink) = Len(Flat(rx))
        /\ \A i \in 1..Len(sink) :
             /\ sink[i] < 128
             /\ sink[i] = Flat(rx)[i] % 128

C3_Witness ==
    /\ prog = "listen" /\ args.sevenbit /\ AllProcessed
    /\ Len(rx) = 2
    /\ \E i \in 1..Len(sink) : Flat(rx)[i] >= 128 /\ sink[i] = Flat(rx)[i] - 128

\* C4: at every iteration boundary of the capture loop the running offset is
\* the total number of bytes read, however they were split into chunks and
\* whether or not masking is on.
C4_OffsetIsTotal ==
    (prog = "listen" /\ pc \in {"loop", "last_cts", "read", "idle"}) =>
        offset = Len(Flat(rx))

C4_Witness ==
    /\ prog = "listen" /\ pc = "loop"
    /\ Len(rx) = 2 /\ Len(rx[1]) # Len(rx[2])
    /\ offset = Len(rx[1]) + Len(rx[2])

\* C5: with logging on, when the records of a chunk of length L read at offset
\* O have been written, the log ends with ceil(L/16) hex records, the k-th
\* with the 8-digit offset O+16k and the chunk bytes 16k .. min(16k+16,L)-1,
\* and the log holds no other hex record than those of the chunks read.
C5_HexRecords ==
    (prog = "listen" /\ pc = "advance" /\ args.log) =>
        LET L == Len(data)
            n == Ceil16(L)
        IN  /\ Len(SelectSeq(log, IsHex)) = SumCeil16(rx)
            /\ Len(log) >= n
            /\ \A k \in 0..(n - 1) :
                 LET r == log[Len(log) - n + k + 1]
                     m == Min(16 * k + 16, L) - 16 * k
                 IN  /\ r.kind = "hex"
                     /\ Len(r.off) = 8
                     /\ HexValue(r.off) = offset + 16 * k
                     /\ r.hex = [j \in 1..m |-> Hex2(data[16 * k + j])]

C5_Witness ==
    /\ prog = "listen" /\ pc = "advance" /\ args.log
    /\ Len(data) = 37 /\ offset = 0
    /\ Len(SelectSeq(log, IsHex)) = 3
    /\ LET n == Len(log)
       IN  /\ log[n - 2].off = <<"0", "0", "0", "0", "0", "0", "0", "0">>
           /\ log[n - 1].off = <<"0", "0", "0", "0", "0", "0", "1", "0">>
           /\ log[n].off     = <<"0", "0", "0", "0", "0", "0", "2", "0">>
           /\ Len(log[n - 2].hex) = 16
           /\ Len(log[n - 1].hex) = 16
           /\ Len(log[n].hex) = 5

\* C6: if the far end echoes everything written, unchanged, the loopback test
\* reads back as many bytes as the pattern has and reports equality.
C6_PerfectEcho ==
    (prog = "cable" /\ echo = "perfect" /\ loopback_ok # "None") =>
        /\ loopback_ok = "True"
        /\ Len(received) = Len(msg)

C6_Witness ==
    /\ prog = "cable" /\ echo = "perfect" /\ loopback_ok = "True"
    /\ received = msg

C8_ChangeIffDiffers ==
    [][(prog = "monitor" /\ pc = "m_poll" /\ pc' = "m_sleep") =>
         /\ DetectChange(cur', cur') = {}
         /\ IF DetectChange(cur, cur') # {}
            THEN log' = Append(log, ChangeLine(cur'))
            ELSE log' = log]_vars

C8_Witness ==
    /\ prog = "monitor" /\ polls = 2 /\ pc = "m_sleep"
    /\ Len(log) = 3
    /\ log[2].kind = "change" /\ log[3].kind = "change"
    /\ log[2].cts /\ ~log[3].cts

\* C9: a run whose port was not opened never has a sink, and it ends with
\* the device-not-found exit or the port-open exception.
C9_NoSinkWithoutPort ==
    (prog = "listen" /\ ser = "none") =>
        /\ f = "none" /\ lf = "none" /\ sink = <<>> /\ log = <<>>
        /\ pc \in {"start", "open", "done"}
        /\ (pc = "done" /\ exc # "KeyboardInterrupt") =>
              \/ outcome = "Exit" /\ exc = "SystemExit(2)"
              \/ outcome = "Uncaught" /\ exc = "SerialException"

C9_Witness ==
    /\ prog = "listen" /\ ser = "none" /\ pc = "done"
    /\ outcome = "Exit" /\ exc = "SystemExit(2)" /\ f = "none" /\ lf = "none"

\* C10 as stated: a failed write or flush on a sink during Capturing ends the
\* session as Interrupted with both sinks closed.
C10_WriteFailureInterrupted ==
    (prog \in {"listen", "receive"} /\ pc = "done" /\ exc = "OSError" /\ f # "none") =>
        /\ outcome = "Interrupted"
        /\ f = "closed" /\ lf # "open"

\* C10 amended: a failed write or flush on a sink in the capture loop escapes
\* as an uncaught exception, with both sinks and the port closed; no run of
\* listen.py or rs232_receive.py ends with a sink open.
C10_SinksReleased ==
    (prog \in {"listen", "receive"} /\ pc = "done") =>
        /\ f # "open" /\ lf # "open"
        /\ (exc = "OSError" /\ f # "none") =>
              /\ outcome = "Uncaught"
              /\ f = "closed" /\ ser = "closed"

C10_Witness ==
    /\ prog = "listen" /\ pc = "done" /\ exc = "OSError"
    /\ f = "closed" /\ lf = "closed" /\ Len(sink) > 0

\* C11: the continuity sweep records one pair per value of the drive sequence,
\* in order; the first component is the value driven, the second the sense
\* line as sampled after that drive and before the next, so a sense line that
\* mirrors the drive line gives pairs of equal components.  The sweep ends
\* the same way whatever the pairs are.
C11_ContinuityPairs ==
    prog = "cable" =>
        /\ Len(states) <= Len(DriveSequence)
        /\ \A i \in 1..Len(states) :
             /\ states[i][1] = DriveSequence[i]
             /\ wiring = "mirror" => states[i][2] = states[i][1]
        /\ pc = "c_sense" => rts = DriveSequence[Len(states) + 1]
        /\ (pc = "done" /\ outcome = "Completed") => Len(states) = Len(DriveSequence)
        /\ (pc = "done" /\ Len(states) = Len(DriveSequence)) => outcome = "Completed"

C11_Witness ==
    /\ prog = "cable" /\ pc = "done" /\ outcome = "Completed"
    /\ wiring = "mirror"
    /\ states = <<<<TRUE, TRUE>>, <<FALSE, FALSE>>, <<TRUE, TRUE>>>>
---------------------------------------------------------------------------
(* Host output lines: initial assertion and pulse *)

\* positions of the history entries of one kind
Entries(ev, phase) ==
    {i \in 1..Len(trace) : trace[i].ev = ev /\ trace[i].phase = phase}

NoSetFailed == \A i \in 1..Len(trace) : trace[i].ev # "setfail"

\* the capture loop has been entered: listening for data has begun
Listening == pc \in {"loop", "last_cts", "read", "idle", "write", "mask", "rewrite",
                     "hexlog", "advance"}

\* a complete pulse of the given line: set true directly followed by set false
PulsedLine(line) ==
    \E i \in 1..(Len(trace) - 1) :
        /\ trace[i] = Ev("set", "pulse", line, "True")
        /\ trace[i + 1] = Ev("set", "pulse", line, "False")

\* C12: whenever a pulse duration greater than 0 is configured, DTR is pulsed
\* (set true, then set false) before listening begins, whatever the
\* --assert-line / --dtr settings are (no line operation being rejected).
C12_PulseAlwaysOnDTR ==
    (prog = "listen" /\ args.dtr_pulse > 0 /\ Listening /\ NoSetFailed)
        => PulsedLine("dtr")

---------------------------------------------------------------------------
(* The steps of one capture-loop iteration *)

\* lines 197-212: the steps of an iteration for a non-empty chunk, in order
ExpectedSteps ==
    <<"write">> \o (IF args.sevenbit THEN <<"seek", "rewrite">> ELSE <<>>)
                \o (IF args.log THEN <<"log">> ELSE <<>>) \o <<"offset">>

IsPrefix(s, t) == Len(s) <= Len(t) /\ SubSeq(t, 1, Len(s)) = s

\* the chunks that have gone through every step of their iteration
CompletedChunks ==
    IF rx # <<>> /\ steps # ExpectedSteps THEN SubSeq(rx, 1, Len(rx) - 1) ELSE rx

\* C13 as stated: operator cancellation takes effect only at an iteration
\* boundary, so when the loop exits as Interrupted every chunk read has had
\* all its steps (append, rewrite, log records, offset advance).
C13_InterruptAtBoundary ==
    (prog = "listen" /\ outcome = "Interrupted") =>
        /\ rx # <<>> => steps = ExpectedSteps
        /\ offset = Len(Flat(rx))

\* C13 amended: operator cancellation can take effect between any two steps
\* of an iteration.  When the loop exits as Interrupted the steps done for the
\* last chunk read are an initial part of the iteration's steps, in order;
\* every earlier chunk has had all its steps; the offset counts exactly the
\* chunks that had all their steps; the bytes written remain in the sink.
C13_InterruptBetweenSteps ==
    (prog = "listen" /\ outcome = "Interrupted") =>
        /\ IsPrefix(steps, ExpectedSteps)
        /\ offset = Len(Flat(CompletedChunks))
        /\ Len(sink) = Len(Flat(WrittenChunks))

C13_Witness ==
    /\ prog = "listen" /\ outcome = "Interrupted"
    /\ args.sevenbit /\ args.log
    /\ Len(rx) = 2 /\ steps = <<"write", "seek">>
    /\ offset = Len(rx[1]) /\ Len(sink) = Len(Flat(rx))

\* C14: the steps done for a chunk are always an initial part of: unmasked
\* append, (seek-back, masked rewrite), (hex log records), offset advance.
\* The later steps start with the chunk already appended to the binary sink,
\* and the log never holds hex records of a chunk that is not in the sink:
\* the bytes of the last record written lie inside the sink.
C14_StepOrder ==
    prog = "listen" =>
        /\ IsPrefix(steps, ExpectedSteps)
        /\ pc \in {"mask", "rewrite", "hexlog", "advance"} =>
             /\ steps # <<>> /\ steps[1] = "write"
             /\ Len(sink) = Len(Flat(rx))
        /\ pc = "rewrite" => steps = <<"write", "seek">>
        /\ Len(SelectSeq(log, IsHex)) <= SumCeil16(WrittenChunks)
        /\ (pc = "advance" /\ args.log) =>
             LET r == log[Len(log)]
             IN  r.kind = "hex" /\ HexValue(r.off) + Len(r.hex) = Len(sink)

C14_Witness ==
    /\ prog = "listen" /\ pc = "advance"
    /\ args.sevenbit /\ args.log
    /\ steps = <<"write", "seek", "rewrite", "log">>
    /\ Len(rx) = 2 /\ Len(SelectSeq(log, IsHex)) = SumCeil16(rx)

\* C15: over every step of a listen.py run the running offset does not
\* decrease, stays at or below the number of bytes in the binary sink, and an
\* iteration that read a non-empty chunk and runs to its end leaves the offset
\* strictly greater than it found it.
C15_OffsetMonotone ==
    [][prog = "listen" =>
         /\ offset' >= offset
         /\ offset' <= Len(sink')
         /\ (pc = "advance" /\ pc' = "loop") =>
              /\ data # <<>>
              /\ offset' > offset
              /\ offset' = Len(sink')]_vars

C15_Witness ==
    /\ prog = "listen" /\ pc = "loop"
    /\ Len(rx) = 2 /\ steps = ExpectedSteps
    /\ offset > Len(rx[1]) /\ offset = Len(sink)

---------------------------------------------------------------------------
(* Order of line operations, gate wait and capture *)

\* positions of the line operations, rejected or not, of one phase
LineOps(phase) ==
    {i \in 1..Len(trace) : trace[i].ev \in {"set", "setfail"} /\ trace[i].phase = phase}

Before(S, T) == \A i \in S, j \in T : i < j

\* C16 as stated: every host-output line operation, the initial assertion and
\* the pulse, is performed before the gate wait starts, and the gate wait
\* finishes before the first read of the capture loop.
C16_LineOpsBeforeGate ==
    prog = "listen" =>
        /\ Before(LineOps("assert") \cup LineOps("pulse"), Entries("gate_start", "gate"))
        /\ Before(Entries("gate_end", "gate"), Entries("read", "capture"))

\* C16 amended: the initial assertion is the first thing done on the port,
\* before the gate wait starts; the pulse is made after the gate wait has
\* finished and the sinks have been created, and before the first read; the
\* capture loop is not entered, and nothing is read, while the gate wait is
\* in progress.
C16_AssertGatePulseRead ==
    prog = "listen" =>
        /\ Before(LineOps("assert"), Entries("gate_start", "gate"))
        /\ Before(Entries("gate_start", "gate") \cup Entries("gate_end", "gate"),
                  LineOps("pulse"))
        /\ Before(LineOps("assert"), LineOps("pulse"))
        /\ Before(LineOps("pulse"), Entries("read", "capture"))
        /\ Before(Entries("gate_end", "gate"), Entries("read", "capture"))
        /\ (AssertOn /\ (gate # "none" \/ f # "none")) =>
             /\ trace # <<>>
             /\ trace[1].phase = "assert"
        /\ LineOps("pulse") # {} => gate # "waiting" /\ f # "none"
        /\ (args.dtr_pulse > 0 /\ AssertOn /\ Listening) => LineOps("pulse") # {}
        /\ gate = "waiting" =>
             /\ Entries("read", "capture") = {}
             /\ pc \in {"gate_sample", "gate_sleep", "done"}
             /\ f = "none"

C16_Witness ==
    /\ prog = "listen" /\ pc = "loop" /\ gate = "asserted"
    /\ Len(trace) = 5
    /\ trace[1] = Ev("set", "assert", "dtr", "True")
    /\ trace[2].ev = "gate_start" /\ trace[3].ev = "gate_end"
    /\ trace[4] = Ev("set", "pulse", "dtr", "True")
    /\ trace[5] = Ev("set", "pulse", "dtr", "False")

\* the value last driven on a host output line
LineValue(line) == IF line = "dtr" THEN dtr ELSE rts

\* C17: a pulse sets the configured line true and, as its next line operation,
\* sets it false: between the two no other set of any line is made.  Once the
\* pulse has been made the line stays false for the rest of the run, capture
\* loop included, also when the initial assertion had set it true.
C17_PulseTrueThenFalse ==
    prog = "listen" =>
        /\ pc = "pulse_lo" =>
             /\ trace[Len(trace)] = Ev("set", "pulse", assert_line, "True")
             /\ LineValue(assert_line) = TRUE
        /\ \A i \in LineOps("pulse") :
             /\ trace[i].line = assert_line
             /\ trace[i].val = "False" =>
                  i > 1 /\ trace[i - 1] = Ev("set", "pulse", assert_line, "True")
             /\ (trace[i].val = "True" /\ i < Len(trace)) =>
                  trace[i + 1] \in {Ev("set", "pulse", assert_line, "False"),
                                    Ev("setfail", "pulse", assert_line, "")}
        /\ PulsedLine(assert_line) => LineValue(assert_line) = FALSE

C17_Witness ==
    /\ prog = "listen" /\ pc = "advance"
    /\ trace[1] = Ev("set", "assert", "rts", "True")
    /\ PulsedLine("rts")
    /\ rts = FALSE /\ Len(rx) = 2

\* C18: a step in which setDTR/setRTS is rejected, in the initial assertion
\* or in the pulse, changes no line and no sink and does not end the run: the
\* run goes on to the gate wait, respectively to the capture loop.
C18_RejectedSetGoesOn ==
    [][(prog = "listen" /\ trace' # trace /\ trace'[Len(trace')].ev = "setfail") =>
         /\ outcome' = "Running" /\ exc' = "none"
         /\ pc' = IF trace'[Len(trace')].phase = "assert" THEN "gate" ELSE "loop"
         /\ UNCHANGED <<ser, dtr, rts, f, lf, sink, log>>]_vars

C18_Witness ==
    /\ prog = "listen" /\ pc = "advance" /\ outcome = "Running"
    /\ gate = "none"
    /\ trace[1] = Ev("setfail", "assert", "dtr", "")
    /\ trace[2] = Ev("setfail", "pulse", "dtr", "")
    /\ trace[3].ev = "read"
    /\ sink # <<>> /\ f = "open" /\ lf = "open"

---------------------------------------------------------------------------
(* Failing line-state reads *)

\* C19: a failing line-state read is never surfaced as an error: in the gate
\* wait and in the initial monitor sample, as in the per-iteration poll, it
\* gives the value false and the run goes on.
C19_ReadFailureDegrades ==
    prog = "listen" =>
        \A i \in 1..Len(trace) :
            trace[i].ev = "readfail" => ~(outcome = "Uncaught" /\ exc = "SerialException")

---------------------------------------------------------------------------
(* Monitor-line annotations in the log *)

IsMonitorNote(r) == r.kind \in {"monitor initial", "changed"}

IsAnnotation(r) == r.kind = "changed"

\* C20: with logging on and a monitor line configured, the header records the
\* monitored line and its initial value; a poll that differs from the value
\* last recorded appends one annotation with the new value, so the most recent
\* header/annotation value is the value last recorded and consecutive values
\* alternate; and after an annotation capture continues: the session is ended
\* only by the operator or by an adapter or file failure.
C20_AnnotateAndContinue ==
    (prog = "listen" /\ args.log /\ MonitorOn /\ log # <<>>) =>
        LET notes == SelectSeq(log, IsMonitorNote)
        IN  /\ log[2] = Note("monitor_line", monitor_line)
            /\ notes # <<>>
            /\ notes[1].kind = "monitor initial"
            /\ notes[Len(notes)].val = last_monitor
            /\ \A i \in 1..(Len(notes) - 1) :
                 notes[i + 1].kind = "changed" /\ notes[i + 1].val # notes[i].val
            /\ (SelectSeq(log, IsAnnotation) # <<>> /\ pc = "done") =>
                 exc \in {"KeyboardInterrupt"} \cup IOFailures

---------------------------------------------------------------------------
(* Operator cancellation outside the capture session *)

\* C21: operator cancellation at any point after the port has been opened,
\* the gate wait included, ends the run as Interrupted with the port closed
\* and no uncaught exception.
C21_InterruptAlwaysHandled ==
    (prog = "listen" /\ ser # "none" /\ exc = "KeyboardInterrupt") =>
        /\ outcome = "Interrupted"
        /\ ser = "closed"

---------------------------------------------------------------------------
(* Termination of the capture loops *)

\* listen.py configurations run next to rs232_receive.py in the termination
\* check: one without and one with a monitor line, every option on
LimitListenArgs ==
    {a \in ListenArgs : /\ a.assert_line = "dtr" /\ a.dtr = "on" /\ a.dtr_pulse = 50
                        /\ a.monitor_line \in {"None", "cts"}
                        /\ ~a.rtscts /\ ~a.no_wait_cts
                        /\ a.log /\ a.sevenbit}

InitLimit ==
    \/ InitReceive
    \/ /\ prog = "listen" /\ pc = "start"
       /\ args \in LimitListenArgs
       /\ Blank

\* the steps rs232_receive.py takes by itself; the operator's interrupt is not
\* one of them
RecvRuns == RecvOpen \/ RecvOpenSink \/ RecvCheck \/ RecvRead \/ RecvWrite

\* a running script goes on running: its next statement is executed
SpecLimit == InitLimit /\ [][Next]_vars /\ WF_vars(RecvRuns)

RecvInLoop == prog = "receive" /\ pc \in {"r_loop", "r_read", "r_write"}

---------------------------------------------------------------------------
(* Hex log against binary sink under 7-bit masking *)

\* the bytes a hex record shows, read back from its two-digit groups
ShownBytes(r) == [i \in 1..Len(r.hex) |-> HexValue(r.hex[i])]

RECURSIVE AllShownBytes(_)
AllShownBytes(records) ==
    IF records = <<>> THEN <<>>
    ELSE ShownBytes(Head(records)) \o AllShownBytes(Tail(records))

\* C23: with logging and 7-bit masking both on, at the top of every iteration
\* of the capture loop the bytes shown by the hex records of the log, taken in
\* order, are the content of the binary sink byte for byte: the masked bytes.
C23_LogShowsMaskedSink ==
    (prog = "listen" /\ args.log /\ args.sevenbit /\ pc = "loop") =>
        LET shown == AllShownBytes(SelectSeq(log, IsHex))
        IN  /\ shown = sink
            /\ \A i \in 1..Len(shown) : shown[i] = Mask7(Flat(rx)[i])

C23_Witness ==
    /\ prog = "listen" /\ args.log /\ args.sevenbit /\ pc = "loop"
    /\ Len(rx) = 2 /\ Len(rx[1]) = 37
    /\ Flat(rx)[1] = 193 /\ sink[1] = 65
    /\ HexValue(SelectSeq(log, IsHex)[1].hex[1]) = 65
    /\ Len(AllShownBytes(SelectSeq(log, IsHex))) = Len(sink)

===========================================================================
